---- MODULE Spec2Model ----
(***************************************************************************)
(* Model of the multi-stage agent response pipeline of src/index.tsx:      *)
(* handleSubmit and the state it reads and writes.  A completion call is   *)
(* a request appended to `calls`; the service settles it later, in any     *)
(* order, with a response or a failure.  Further specifications cover the  *)
(* API key, audio recording and dropped files, and handleRunCode.          *)
(***************************************************************************)
EXTENDS Naturals, Integers, Sequences, FiniteSets, TLC

VARIABLES
  ai,               \* the GoogleGenAI client is initialised
  chatSessions,     \* sequence of [id, title, messages]
  activeChatId,     \* id of the selected chat, or Null
  currentAssistantId,
  currentMode,
  useGoogleSearch,
  input,            \* text of the textarea
  attachments,      \* sequence of [status, processedParts]
  isLoading,
  loadingMessage,
  pc,               \* position of handleSubmit: idle, an await, done or failed
  run,              \* the locals handleSubmit captured at the submission
  calls,            \* requests issued by the current run, in issue order
  outcome,          \* outcome[k]: pending, failed, or the response of calls[k]
  settled,          \* indices of calls in the order in which they settled
  finalResponse,    \* the local finalResponse, Null until assigned
  labels,           \* progress labels set by the current run, in order
  nextId,           \* next value uuidv4 returns
  userEvents,       \* number of user actions other than typing
  ignoredSubmits,   \* calls of handleSubmit since the last accepted one that returned at its guard
  recorder,         \* mediaRecorderRef: inactive, requesting, recording or stopping
  pyodide,          \* the Python environment is loaded
  isPyodideLoading,
  executionResults, \* executionResults[key]: [output, isRunning], NoResult when absent
  runCode           \* runCode[key]: position of the handleRunCode call on that block

vars == <<ai, chatSessions, activeChatId, currentAssistantId, currentMode,
          useGoogleSearch, input, attachments, isLoading, loadingMessage,
          pc, run, calls, outcome, settled, finalResponse, labels, nextId, userEvents,
          ignoredSubmits, recorder, pyodide, isPyodideLoading, executionResults,
          runCode>>

\* the state of handleRunCode
codeVars == <<pyodide, isPyodideLoading, executionResults, runCode>>

\* ---- bounds ----
\* user actions other than typing: sending, mode, search, chats, files
MaxUserEvents == 2

\* ---- program constants ----
HEAVY_MODEL == "gemini-2.5-pro"
PRO_MODEL == "gemini-2.5-flash"
QUICK_MODEL == "gemini-2.5-flash-lite"
IMAGE_MODEL == "gemini-2.5-flash-image-preview"
TITLE_GEN_MODEL == "gemini-2.5-flash"

INITIAL_SYSTEM_INSTRUCTION == "INITIAL"
REFINEMENT_SYSTEM_INSTRUCTION == "REFINEMENT"
SYNTHESIZER_SYSTEM_INSTRUCTION == "SYNTHESIZER"
TITLE_GEN_INSTRUCTION == "TITLE_GEN"

\* a null chat id (uuidv4 values are modelled as 1, 2, ...)
Null == 0

AppMode == {"quick", "flash", "pro", "heavy", "image-gen"}

\* the executable code blocks on screen, by their key `${messageId}-${blockIndex}`
CodeBlocks == {"m1-0", "m1-1", "m2-0"}

LanguageOf(key) == IF key = "m2-0" THEN "html" ELSE "python"

\* the code of the block imports a package
ImportsPackages(key) == key = "m1-1"

\* executionResults[key] is undefined
NoResult == [output |-> "", isRunning |-> FALSE]

\* DEFAULT_ASSISTANTS: the persona instruction of each assistant ("" = none)
AssistantIds == {"default-gemini", "code-wizard"}

SystemInstructionOf(assistantId) ==
  IF assistantId = "default-gemini" THEN "" ELSE "PERSONA"

DefaultModeOf(assistantId) == "pro"

\* ---- values ----
Turn(role, parts) == [role |-> role, parts |-> parts]

Msg(id, role, parts) == [id |-> id, role |-> role, parts |-> parts]

\* messages.map(m => ({ role: m.role, parts: m.parts }))
RECURSIVE HistoryOf(_)
HistoryOf(msgs) ==
  IF msgs = <<>> THEN <<>>
  ELSE <<Turn(Head(msgs).role, Head(msgs).parts)>> \o HistoryOf(Tail(msgs))

\* chatSessions.find(c => c.id === id)?.messages || []
RECURSIVE MessagesOf(_, _)
MessagesOf(sessions, id) ==
  IF sessions = <<>> THEN <<>>
  ELSE IF Head(sessions).id = id THEN Head(sessions).messages
  ELSE MessagesOf(Tail(sessions), id)

\* messages.filter(m => m.id !== id)
RECURSIVE WithoutMessage(_, _)
WithoutMessage(msgs, id) ==
  IF msgs = <<>> THEN <<>>
  ELSE IF Head(msgs).id = id THEN WithoutMessage(Tail(msgs), id)
  ELSE <<Head(msgs)>> \o WithoutMessage(Tail(msgs), id)

\* attachments.filter(a => a.status === 'ready').flatMap(a => a.processedParts || [])
RECURSIVE ReadyParts(_)
ReadyParts(atts) ==
  IF atts = <<>> THEN <<>>
  ELSE (IF Head(atts).status = "ready" THEN Head(atts).processedParts ELSE <<>>)
       \o ReadyParts(Tail(atts))

HasStatus(atts, s) == \E i \in 1..Len(atts) : atts[i].status = s

\* ---- responses of the completion service ----
\* cand = FALSE: candidates?.[0]?.content?.parts is undefined
Response(cand, parts) == [state |-> "ok", cand |-> cand, parts |-> parts]

Pending == [state |-> "pending", cand |-> FALSE, parts |-> <<>>]

Failed == [state |-> "failed", cand |-> FALSE, parts |-> <<>>]

NoResponse == [state |-> "none", cand |-> FALSE, parts |-> <<>>]

ResponsesWith(token) ==
  { Response(FALSE, <<>>), Response(TRUE, <<>>), Response(TRUE, <<token>>) }

\* the responses a refiner is given to return: its own text
RefineResponsesWith(token) ==
  { Response(TRUE, <<token>>) }

\* response.candidates?.[0]?.content?.parts || []
PartsOrEmpty(resp) == IF resp.cand THEN resp.parts ELSE <<>>

\* variant: only a missing parts list counts as an empty draft
NoCandidate(resp) == ~resp.cand

\* variant: every draft is taken as the final response
AnyDraftIsFinal(resp) == TRUE

\* !initialContent?.parts?.length
NoContentParts(resp) == ~resp.cand \/ Len(resp.parts) = 0

\* ---- requests ----
\* variant: the flash mode runs on the quick model
ModelOfFlashOnQuick(mode) ==
  CASE mode = "heavy" -> HEAVY_MODEL
    [] mode = "pro" -> PRO_MODEL
    [] mode \in {"flash", "quick"} -> QUICK_MODEL
    [] OTHER -> PRO_MODEL

\* the switch on currentMode
ModelOf(mode) ==
  CASE mode = "heavy" -> HEAVY_MODEL
    [] mode = "pro" -> PRO_MODEL
    [] mode = "flash" -> PRO_MODEL
    [] mode = "quick" -> QUICK_MODEL
    [] OTHER -> PRO_MODEL

\* variant: reasoning is disabled in every mode but pro and heavy
ThinkingOffUnlessPro(mode) == mode \notin {"pro", "heavy"}

\* config.thinkingConfig = { thinkingBudget: 0 }
ThinkingOff(mode) == mode \in {"flash", "quick"}

\* variant: the instructions are joined without the filter
CombinedInstructionUnfiltered(persona, agentInstruction) ==
  persona \o "\n\n---\n\n" \o agentInstruction

\* [userSystemInstruction, agentInstruction].filter(Boolean).join('\n\n---\n\n')
\* (a persona of "" is the undefined userSystemInstruction)
CombinedInstruction(persona, agentInstruction) ==
  IF persona = "" THEN agentInstruction
  ELSE persona \o "\n\n---\n\n" \o agentInstruction

Request(site, model, contents, sys, thinkingOff, search) ==
  [site |-> site, model |-> model, contents |-> contents, sys |-> sys,
   thinkingOff |-> thinkingOff, search |-> search]

runAgent(r, site, agentInstruction, h, p) ==
  Request(site, ModelOf(r.mode), h \o <<Turn("user", p)>>,
          CombinedInstruction(r.persona, agentInstruction),
          ThinkingOff(r.mode), r.search)

\* variant: the history is read from the chat after the submission was added to it
DraftRequestFromUpdatedChat(r) ==
  runAgent(r, "draft", INITIAL_SYSTEM_INSTRUCTION,
           r.history \o <<Turn("user", r.userParts), Turn("model", <<"...">>)>>,
           r.userParts)

DraftRequest(r) ==
  runAgent(r, "draft", INITIAL_SYSTEM_INSTRUCTION, r.history, r.userParts)

\* [...history, { role: 'user', parts: userMessage.parts }, initialContent]
RefinedHistory(r, initialResponse) ==
  r.history \o <<Turn("user", r.userParts), Turn("model", initialResponse.parts)>>

\* variant: a refiner is also given the refinements obtained so far
RefineRequestWithSiblings(r, initialResponse) ==
  LET done == { k \in 1..Len(calls) : calls[k].site = "refine" /\ outcome[k].state = "ok"
                                        /\ outcome[k].cand }
      RECURSIVE Turns(_)
      Turns(S) == IF S = {} THEN <<>>
                  ELSE LET m == CHOOSE x \in S : \A y \in S : x <= y
                       IN <<Turn("model", outcome[m].parts)>> \o Turns(S \ {m})
  IN runAgent(r, "refine", REFINEMENT_SYSTEM_INSTRUCTION,
              RefinedHistory(r, initialResponse) \o Turns(done), <<>>)

RefineRequest(r, initialResponse) ==
  runAgent(r, "refine", REFINEMENT_SYSTEM_INSTRUCTION,
           RefinedHistory(r, initialResponse), <<>>)

RefineHeader ==
  << "--- Refined Response 1 ---\n", "\n--- Refined Response 2 ---\n",
     "\n--- Refined Response 3 ---\n", "\n--- Refined Response 4 ---\n" >>

\* the array literal refinedParts, for refinements 1..Len(refinements)
RECURSIVE RefinedPartsFrom(_, _)
RefinedPartsFrom(refinements, i) ==
  IF i > Len(refinements) THEN <<>>
  ELSE <<RefineHeader[i]>> \o PartsOrEmpty(refinements[i])
       \o RefinedPartsFrom(refinements, i + 1)

\* variant: a result without content parts contributes nothing, not even its header
RefinedPartsSkippingEmpty(refinements) ==
  LET RECURSIVE From(_)
      From(i) == IF i > Len(refinements) THEN <<>>
                 ELSE (IF Len(PartsOrEmpty(refinements[i])) = 0 THEN <<>>
                       ELSE <<RefineHeader[i]>> \o PartsOrEmpty(refinements[i]))
                      \o From(i + 1)
  IN From(1)

RefinedParts(refinements) == RefinedPartsFrom(refinements, 1)

\* variant: the synthesizer is given the history extended by the user turn
SynthRequestRefinedHistory(r, refinements) ==
  runAgent(r, "synth", SYNTHESIZER_SYSTEM_INSTRUCTION,
           r.history \o <<Turn("user", r.userParts)>>,
           r.userParts \o RefinedParts(refinements))

\* variant: the synthesizer is configured from the mode and the search flag
\* selected at the time of its call
SynthRequestCurrentConfig(r, refinements) ==
  runAgent([r EXCEPT !.mode = currentMode, !.search = useGoogleSearch],
           "synth", SYNTHESIZER_SYSTEM_INSTRUCTION, r.history,
           r.userParts \o RefinedParts(refinements))

SynthRequest(r, refinements) ==
  runAgent(r, "synth", SYNTHESIZER_SYSTEM_INSTRUCTION, r.history,
           r.userParts \o RefinedParts(refinements))

\* variant: the single call goes through runAgent with the draft instruction
SingleRequestWithStage(r) ==
  runAgent(r, "single", INITIAL_SYSTEM_INSTRUCTION, r.history, r.userParts)

\* the single agent call: config carries the persona instruction only
SingleRequest(r) ==
  Request("single", ModelOf(r.mode), r.history \o <<Turn("user", r.userParts)>>,
          r.persona,
          ThinkingOff(r.mode), r.search)

ImageRequest(r) ==
  Request("image", IMAGE_MODEL, r.history \o <<Turn("user", r.userParts)>>,
          r.persona, FALSE, FALSE)

TitleRequest(text) ==
  Request("title", TITLE_GEN_MODEL, <<Turn("user", <<text>>)>>,
          TITLE_GEN_INSTRUCTION, FALSE, FALSE)

\* variant: every mode stops after its first pair of refiners
RefineBatchesOnce(mode) == 1

\* variant: every mode runs a second pair of refiners
RefineBatchesTwice(mode) == 2

\* the number of Promise.all of two refiners a mode one after the other
RefineBatches(mode) == IF mode \in {"heavy", "pro"} THEN 2 ELSE 1

\* indices in calls of the requests made at a site, in issue order
SiteCalls(cs, site) ==
  SelectSeq([k \in 1..Len(cs) |-> k], LAMBDA k : cs[k].site = site)

\* variant: the array holds the outcomes in the order of completion
PromiseAllByCompletion(oc, indices) ==
  LET At(k) == IF \E n \in 1..Len(settled) : settled[n] = k
               THEN CHOOSE n \in 1..Len(settled) : settled[n] = k
               ELSE Len(settled) + 1
  IN IF At(indices[2]) < At(indices[1])
     THEN <<oc[indices[2]], oc[indices[1]]>>
     ELSE <<oc[indices[1]], oc[indices[2]]>>

\* the array Promise.all resolves to: the outcomes of its promises by position
PromiseAll(oc, indices) == [j \in 1..Len(indices) |-> oc[indices[j]]]

\* variant: a rejected promise does not reject the group
PromiseAllNeverRejects(oc, batch) == FALSE

\* Promise.all rejects as soon as one of its promises rejects
PromiseAllRejects(oc, batch) == \E j \in batch : oc[j] = Failed

\* variant: the group resolves with its first resolved promise
PromiseAnyFulfilled(oc, batch) == \E j \in batch : oc[j].state = "ok"

\* Promise.all resolves when every one of its promises has resolved
PromiseAllFulfilled(oc, batch) == \A j \in batch : oc[j].state = "ok"

\* ---- handleSubmit ----
NoRun ==
  [mode |-> "pro", persona |-> "", search |-> FALSE, target |-> Null,
   thinkingId |-> Null, userParts |-> <<>>, history |-> <<>>, text |-> ""]

Init ==
  /\ ai = TRUE
  /\ chatSessions = <<>>
  /\ activeChatId = Null
  /\ currentAssistantId = "default-gemini"
  /\ currentMode = "pro"
  /\ useGoogleSearch = FALSE
  /\ input = ""
  /\ attachments = <<>>
  /\ isLoading = FALSE
  /\ loadingMessage = ""
  /\ pc = "idle"
  /\ run = NoRun
  /\ calls = <<>>
  /\ outcome = <<>>
  /\ settled = <<>>
  /\ finalResponse = NoResponse
  /\ labels = <<>>
  /\ nextId = 1
  /\ userEvents = 0
  /\ ignoredSubmits = 0
  /\ recorder = "inactive"
  /\ pyodide = FALSE
  /\ isPyodideLoading = FALSE
  /\ executionResults = [k \in CodeBlocks |-> NoResult]
  /\ runCode = [k \in CodeBlocks |-> "idle"]

\* prevSessions.map(chat => chat.id === id ? { ...chat, messages: f(messages) } : chat)
AppendTo(sessions, id, msgs) ==
  [i \in 1..Len(sessions) |->
     IF sessions[i].id = id
     THEN [sessions[i] EXCEPT !.messages = @ \o msgs]
     ELSE sessions[i]]

\* variant: the message is appended and the placeholder is left in place
AppendKeepingThinking(sessions, id, thinkingId, msg) ==
  [i \in 1..Len(sessions) |->
     IF sessions[i].id = id
     THEN [sessions[i] EXCEPT !.messages = @ \o <<msg>>]
     ELSE sessions[i]]

\* variant: the result goes to the chat that is selected when the run ends
ReplaceThinkingInActiveChat(sessions, id, thinkingId, msg) ==
  [i \in 1..Len(sessions) |->
     IF sessions[i].id = activeChatId
     THEN [sessions[i] EXCEPT !.messages = WithoutMessage(@, thinkingId) \o <<msg>>]
     ELSE sessions[i]]

ReplaceThinking(sessions, id, thinkingId, msg) ==
  [i \in 1..Len(sessions) |->
     IF sessions[i].id = id
     THEN [sessions[i] EXCEPT !.messages = WithoutMessage(@, thinkingId) \o <<msg>>]
     ELSE sessions[i]]

SetTitle(sessions, id, title) ==
  [i \in 1..Len(sessions) |->
     IF sessions[i].id = id THEN [sessions[i] EXCEPT !.title = title]
     ELSE sessions[i]]

\* the code from "const history" to the first await of the pipeline
BeginPipeline(r, cs, oc, lb) ==
  IF r.mode = "image-gen"
  THEN /\ calls' = cs \o <<ImageRequest(r)>>
       /\ outcome' = oc \o <<Pending>>
       /\ labels' = lb
       /\ loadingMessage' = lb[Len(lb)]
       /\ pc' = "image"
  ELSE IF r.mode \in {"heavy", "pro", "flash"}
  THEN /\ calls' = cs \o <<DraftRequest(r)>>
       /\ outcome' = oc \o <<Pending>>
       /\ labels' = lb \o <<"Agent 1: Initial Draft...">>
       /\ loadingMessage' = "Agent 1: Initial Draft..."
       /\ pc' = "draft"
  ELSE /\ calls' = cs \o <<SingleRequest(r)>>
       /\ outcome' = oc \o <<Pending>>
       /\ labels' = lb
       /\ loadingMessage' = lb[Len(lb)]
       /\ pc' = "single"

\* one more user action fits the bound
UserEvent ==
  /\ userEvents < MaxUserEvents
  /\ userEvents' = userEvents + 1

\* variant: only files that are not ready hold a submission back
ReturnsAtGuardOnFilesOnly ==
  HasStatus(attachments, "processing") \/ HasStatus(attachments, "error")

\* variant: files in error do not hold a submission back
ReturnsAtGuardIgnoringErrors ==
  \/ isLoading
  \/ HasStatus(attachments, "processing")
  \/ (input = "" /\ ~HasStatus(attachments, "ready"))

\* isLoading || hasProcessingFiles || hasErrorFiles
\*   || (!input.trim() && readyAttachments.length === 0)
ReturnsAtGuard ==
  \/ isLoading
  \/ HasStatus(attachments, "processing")
  \/ HasStatus(attachments, "error")
  \/ (input = "" /\ ~HasStatus(attachments, "ready"))

\* handleSubmit returns at its first if: nothing is set
SubmitReturnsEarly ==
  /\ ReturnsAtGuard
  /\ UserEvent
  /\ ignoredSubmits' = ignoredSubmits + 1
  /\ UNCHANGED <<recorder, codeVars>>
  /\ UNCHANGED <<ai, chatSessions, activeChatId, currentAssistantId, currentMode,
                 useGoogleSearch, input, attachments, isLoading, loadingMessage, pc,
                 run, calls, outcome, settled, finalResponse, labels, nextId>>

Submit ==
  /\ UserEvent
  /\ ~ReturnsAtGuard
  /\ ai
  /\ ignoredSubmits' = 0
  /\ UNCHANGED <<recorder, codeVars>>
  /\ LET isNewChat == activeChatId = Null
         targetChatId == IF isNewChat THEN nextId ELSE activeChatId
         ids == IF isNewChat THEN nextId + 1 ELSE nextId
         thinkingMessageId == ids
         userParts == (IF input # "" THEN <<input>> ELSE <<>>) \o ReadyParts(attachments)
         userMessage == Msg(ids + 1, "user", userParts)
         thinkingMessage == Msg(thinkingMessageId, "model", <<"...">>)
         activeMessages == MessagesOf(chatSessions, activeChatId)
         isFirstMessageInChat == isNewChat \/ Len(activeMessages) = 0
         r == [mode |-> currentMode,
               persona |-> SystemInstructionOf(currentAssistantId),
               search |-> useGoogleSearch,
               target |-> targetChatId,
               thinkingId |-> thinkingMessageId,
               userParts |-> userParts,
               history |-> HistoryOf(MessagesOf(chatSessions, targetChatId)),
               text |-> input]
     IN /\ run' = r
        /\ nextId' = ids + 2
        /\ chatSessions' =
             IF isNewChat
             THEN <<[id |-> targetChatId, title |-> "New Chat",
                     messages |-> <<userMessage, thinkingMessage>>,
                     assistantId |-> currentAssistantId]>> \o chatSessions
             ELSE AppendTo(chatSessions, targetChatId, <<userMessage, thinkingMessage>>)
        /\ activeChatId' = targetChatId
        /\ IF isFirstMessageInChat /\ input # ""
           THEN /\ calls' = <<TitleRequest(input)>>
                /\ outcome' = <<Pending>>
                /\ labels' = <<"Thinking...">>
                /\ loadingMessage' = "Thinking..."
                /\ pc' = "title"
           ELSE BeginPipeline(r, <<>>, <<>>, <<"Thinking...">>)
  /\ isLoading' = TRUE
  /\ input' = ""
  /\ settled' = <<>>
  /\ finalResponse' = NoResponse
  /\ UNCHANGED <<ai, currentAssistantId, currentMode, useGoogleSearch, attachments>>

\* the call awaited at a single await is the last one issued
Awaited == Len(calls)

Settle(k, result) ==
  /\ outcome' = [outcome EXCEPT ![k] = result]
  /\ settled' = settled \o <<k>>

TitleReturns(title) ==
  /\ pc = "title"
  /\ settled' = settled \o <<Awaited>>
  /\ chatSessions' = IF title # "" THEN SetTitle(chatSessions, run.target, title)
                     ELSE chatSessions
  /\ BeginPipeline(run, calls, [outcome EXCEPT ![Awaited] = Response(TRUE, <<title>>)], labels)
  /\ UNCHANGED <<ai, activeChatId, currentAssistantId, currentMode, useGoogleSearch,
                 input, attachments, isLoading, run, finalResponse, nextId, userEvents, ignoredSubmits, recorder, codeVars>>

\* variant: the title call is not wrapped in a try of its own
TitleFailureFailsRun ==
  /\ pc = "title"
  /\ Settle(Awaited, Failed)
  /\ chatSessions' = ReplaceThinking(chatSessions, run.target, run.thinkingId,
                                     Msg(nextId, "model", <<"An error occurred: E">>))
  /\ nextId' = nextId + 1
  /\ isLoading' = FALSE
  /\ loadingMessage' = ""
  /\ attachments' = <<>>
  /\ pc' = "failed"
  /\ UNCHANGED <<ai, activeChatId, currentAssistantId, currentMode, useGoogleSearch,
                 input, run, calls, labels, finalResponse, userEvents, ignoredSubmits,
                 recorder, codeVars>>

\* catch (error) { console.error("Title generation error:", error); }
TitleFails ==
  /\ pc = "title"
  /\ settled' = settled \o <<Awaited>>
  /\ BeginPipeline(run, calls, [outcome EXCEPT ![Awaited] = Failed], labels)
  /\ UNCHANGED <<ai, chatSessions, activeChatId, currentAssistantId, currentMode,
                 useGoogleSearch, input, attachments, isLoading, run, finalResponse,
                 nextId, userEvents, ignoredSubmits, recorder, codeVars>>

\* finalModelMessage.parts
FinalParts(resp) ==
  IF resp.cand THEN resp.parts ELSE <<"Sorry, I couldn't generate a response.">>

\* variant: the parts of the image response are taken as they are
ImagePartsAsReturned(resp) == PartsOrEmpty(resp)

\* the image-gen branch: newModelParts
ImageParts(resp) ==
  IF Len(PartsOrEmpty(resp)) = 0
  THEN <<"I couldn't generate a response. Please try again.">>
  ELSE PartsOrEmpty(resp)

\* variant: the progress label stays after a run that succeeded
FinishKeepingLabel(parts) ==
  /\ chatSessions' = ReplaceThinking(chatSessions, run.target, run.thinkingId,
                                     Msg(nextId, "model", parts))
  /\ nextId' = nextId + 1
  /\ isLoading' = FALSE
  /\ loadingMessage' = loadingMessage
  /\ attachments' = <<>>
  /\ pc' = "done"

\* the replacement of the placeholder by the final message, then finally
Finish(parts) ==
  /\ chatSessions' = ReplaceThinking(chatSessions, run.target, run.thinkingId,
                                     Msg(nextId, "model", parts))
  /\ nextId' = nextId + 1
  /\ isLoading' = FALSE
  /\ loadingMessage' = ""
  /\ attachments' = <<>>
  /\ pc' = "done"

ErrorText == "An error occurred: E"

\* variant: the error message also shows the draft obtained so far
ErrorPartsWithDraft ==
  <<ErrorText>> \o
    (IF \E k \in 1..Len(calls) : calls[k].site = "draft" /\ outcome[k].state = "ok"
     THEN outcome[CHOOSE k \in 1..Len(calls) : calls[k].site = "draft"].parts
     ELSE <<>>)

\* errorMessage.parts
ErrorParts == <<ErrorText>>

\* variant: a caught failure ends the run like a success
CatchAsDone ==
  /\ chatSessions' = ReplaceThinking(chatSessions, run.target, run.thinkingId,
                                     Msg(nextId, "model", ErrorParts))
  /\ nextId' = nextId + 1
  /\ isLoading' = FALSE
  /\ loadingMessage' = ""
  /\ attachments' = <<>>
  /\ pc' = "done"

\* variant: the catch block runs but the finally block does not
CatchWithoutFinally ==
  /\ chatSessions' = ReplaceThinking(chatSessions, run.target, run.thinkingId,
                                     Msg(nextId, "model", ErrorParts))
  /\ nextId' = nextId + 1
  /\ isLoading' = isLoading
  /\ loadingMessage' = loadingMessage
  /\ attachments' = attachments
  /\ pc' = "failed"

\* catch (error), then finally
Catch ==
  /\ chatSessions' = ReplaceThinking(chatSessions, run.target, run.thinkingId,
                                     Msg(nextId, "model", ErrorParts))
  /\ nextId' = nextId + 1
  /\ isLoading' = FALSE
  /\ loadingMessage' = ""
  /\ attachments' = <<>>
  /\ pc' = "failed"

\* the calls of the b-th Promise.all of refiners
RefineBatch(cs, b) ==
  LET rs == SiteCalls(cs, "refine") IN SubSeq(rs, 2 * b - 1, 2 * b)

\* the text a response to calls[k] carries
TokenOf(cs, k) ==
  CASE cs[k].site = "draft" -> "D"
    [] cs[k].site = "refine" ->
         LET rs == SiteCalls(cs, "refine")
             n == CHOOSE j \in 1..Len(rs) : rs[j] = k
         IN <<"R1", "R2", "R3", "R4">>[n]
    [] cs[k].site = "synth" -> "S"
    [] cs[k].site = "single" -> "Q"
    [] cs[k].site = "image" -> "I"
    [] OTHER -> "T"

DraftReturns(resp) ==
  /\ pc = "draft"
  /\ settled' = settled \o <<Awaited>>
  /\ IF NoContentParts(resp)
     THEN \* Agent failed, use its response directly
          /\ finalResponse' = resp
          /\ outcome' = [outcome EXCEPT ![Awaited] = resp]
          /\ Finish(FinalParts(resp))
          /\ UNCHANGED <<calls, labels>>
     ELSE /\ calls' = calls \o <<RefineRequest(run, resp), RefineRequest(run, resp)>>
          /\ outcome' = [outcome EXCEPT ![Awaited] = resp] \o <<Pending, Pending>>
          /\ labels' = labels \o <<"Agents 2 & 3: Refining...">>
          /\ loadingMessage' = "Agents 2 & 3: Refining..."
          /\ pc' = "refine1"
          /\ UNCHANGED <<chatSessions, nextId, isLoading, attachments, finalResponse>>
  /\ UNCHANGED <<ai, activeChatId, currentAssistantId, currentMode, useGoogleSearch,
                 input, run, userEvents, ignoredSubmits, recorder, codeVars>>

\* variant: each pair of refinements is taken in the order of completion
RefinementsAsSettled(mode, cs, oc) ==
  PromiseAllByCompletion(oc, RefineBatch(cs, 1))
    \o (IF RefineBatches(mode) = 2 THEN PromiseAllByCompletion(oc, RefineBatch(cs, 2))
        ELSE <<>>)

\* the refinements the synthesizer is given: refinement1, refinement2 of the
\* first Promise.all, then refinement3, refinement4 of the second one
Refinements(mode, cs, oc) ==
  PromiseAll(oc, RefineBatch(cs, 1))
    \o (IF RefineBatches(mode) = 2 THEN PromiseAll(oc, RefineBatch(cs, 2)) ELSE <<>>)

\* the promises of the Promise.all the run is waiting at
CurrentBatch == {Len(calls) - 1, Len(calls)}

\* initialResponse
DraftIndex == SiteCalls(calls, "draft")[1]

\* a refiner of the awaited Promise.all settles
RefineSettles(k, result) ==
  /\ pc \in {"refine1", "refine2"}
  /\ k \in CurrentBatch
  /\ outcome[k] = Pending
  /\ settled' = settled \o <<k>>
  /\ LET oc == [outcome EXCEPT ![k] = result]
     IN IF PromiseAllRejects(oc, CurrentBatch)
        THEN /\ outcome' = oc
             /\ Catch
             /\ UNCHANGED <<calls, labels>>
        ELSE IF ~PromiseAllFulfilled(oc, CurrentBatch)
        THEN /\ outcome' = oc
             /\ UNCHANGED <<calls, labels, loadingMessage, pc, chatSessions, nextId,
                            isLoading, attachments>>
        ELSE IF pc = "refine1" /\ RefineBatches(run.mode) = 2
        THEN /\ calls' = calls \o <<RefineRequest(run, outcome[DraftIndex]),
                                    RefineRequest(run, outcome[DraftIndex])>>
             /\ outcome' = oc \o <<Pending, Pending>>
             /\ labels' = labels \o <<"Agents 4 & 5: Refining...">>
             /\ loadingMessage' = "Agents 4 & 5: Refining..."
             /\ pc' = "refine2"
             /\ UNCHANGED <<chatSessions, nextId, isLoading, attachments>>
        ELSE /\ calls' = calls \o <<SynthRequest(run, Refinements(run.mode, calls, oc))>>
             /\ outcome' = oc \o <<Pending>>
             /\ labels' = labels \o <<"Synthesizing Final Answer...">>
             /\ loadingMessage' = "Synthesizing Final Answer..."
             /\ pc' = "synth"
             /\ UNCHANGED <<chatSessions, nextId, isLoading, attachments>>
  /\ UNCHANGED <<ai, activeChatId, currentAssistantId, currentMode, useGoogleSearch,
                 input, run, finalResponse, userEvents, ignoredSubmits, recorder, codeVars>>

SynthReturns(resp) ==
  /\ pc = "synth"
  /\ Settle(Awaited, resp)
  /\ finalResponse' = resp
  /\ Finish(FinalParts(resp))
  /\ UNCHANGED <<ai, activeChatId, currentAssistantId, currentMode, useGoogleSearch,
                 input, run, calls, labels, userEvents, ignoredSubmits, recorder, codeVars>>

SingleReturns(resp) ==
  /\ pc = "single"
  /\ Settle(Awaited, resp)
  /\ finalResponse' = resp
  /\ Finish(FinalParts(resp))
  /\ UNCHANGED <<ai, activeChatId, currentAssistantId, currentMode, useGoogleSearch,
                 input, run, calls, labels, userEvents, ignoredSubmits, recorder, codeVars>>

ImageReturns(resp) ==
  /\ pc = "image"
  /\ Settle(Awaited, resp)
  /\ Finish(ImageParts(resp))
  /\ UNCHANGED <<ai, activeChatId, currentAssistantId, currentMode, useGoogleSearch,
                 input, run, calls, labels, finalResponse, userEvents, ignoredSubmits, recorder, codeVars>>

\* the call awaited alone (draft, synthesize, single or image) rejects
CallFails ==
  /\ pc \in {"draft", "synth", "single", "image"}
  /\ Settle(Awaited, Failed)
  /\ Catch
  /\ UNCHANGED <<ai, activeChatId, currentAssistantId, currentMode, useGoogleSearch,
                 input, run, calls, labels, finalResponse, userEvents, ignoredSubmits, recorder, codeVars>>

\* a call that nobody waits for any more settles: its result is dropped
LateSettle(k, result) ==
  /\ pc \in {"done", "failed"}
  /\ k \in 1..Len(calls)
  /\ outcome[k] = Pending
  /\ Settle(k, result)
  /\ UNCHANGED <<ai, chatSessions, activeChatId, currentAssistantId, currentMode,
                 useGoogleSearch, input, attachments, isLoading, loadingMessage, pc,
                 run, calls, finalResponse, labels, nextId, userEvents, ignoredSubmits, recorder, codeVars>>

\* ---- the user ----
Inputs == {"X"}

\* textarea onChange (the textarea is disabled while isLoading)
SetInput(text) ==
  /\ ~isLoading
  /\ input # text
  /\ input' = text
  /\ UNCHANGED <<ai, chatSessions, activeChatId, currentAssistantId, currentMode,
                 useGoogleSearch, attachments, isLoading, loadingMessage, pc, run,
                 calls, outcome, settled, finalResponse, labels, nextId, userEvents, ignoredSubmits, recorder, codeVars>>

handleModeChange(mode) ==
  /\ currentMode # mode
  /\ UserEvent
  /\ currentMode' = mode
  /\ UNCHANGED <<ai, chatSessions, activeChatId, currentAssistantId, useGoogleSearch,
                 input, attachments, isLoading, loadingMessage, pc, run, calls,
                 outcome, settled, finalResponse, labels, nextId,
                 ignoredSubmits, recorder, codeVars>>

setUseGoogleSearch(checked) ==
  /\ useGoogleSearch # checked
  /\ UserEvent
  /\ useGoogleSearch' = checked
  /\ UNCHANGED <<ai, chatSessions, activeChatId, currentAssistantId, currentMode,
                 input, attachments, isLoading, loadingMessage, pc, run, calls,
                 outcome, settled, finalResponse, labels, nextId,
                 ignoredSubmits, recorder, codeVars>>

NewChat(id, assistantId) ==
  [id |-> id, title |-> "New Chat", messages |-> <<>>, assistantId |-> assistantId]

createNewChat(assistantId) ==
  /\ chatSessions' = <<NewChat(nextId, assistantId)>> \o chatSessions
  /\ activeChatId' = nextId
  /\ currentMode' = DefaultModeOf(assistantId)
  /\ nextId' = nextId + 1

\* the New Chat button
NewChatClicked ==
  /\ UserEvent
  /\ createNewChat(currentAssistantId)
  /\ UNCHANGED <<ai, currentAssistantId, useGoogleSearch, input, attachments,
                 isLoading, loadingMessage, pc, run, calls, outcome, settled,
                 finalResponse, labels,
                 ignoredSubmits, recorder, codeVars>>

switchAssistant(assistantId) ==
  /\ UserEvent
  /\ currentAssistantId' = assistantId
  /\ createNewChat(assistantId)
  /\ UNCHANGED <<ai, useGoogleSearch, input, attachments, isLoading, loadingMessage,
                 pc, run, calls, outcome, settled, finalResponse, labels,
                 ignoredSubmits, recorder, codeVars>>

\* chat-list-item onClick
SelectChat(i) ==
  /\ UserEvent
  /\ activeChatId' = chatSessions[i].id
  /\ currentAssistantId' = chatSessions[i].assistantId
  /\ currentMode' = DefaultModeOf(chatSessions[i].assistantId)
  /\ UNCHANGED <<ai, chatSessions, useGoogleSearch, input, attachments, isLoading,
                 loadingMessage, pc, run, calls, outcome, settled, finalResponse,
                 labels, nextId,
                 ignoredSubmits, recorder, codeVars>>

deleteChat(i) ==
  /\ UserEvent
  /\ LET chatId == chatSessions[i].id
         newSessions == SelectSeq(chatSessions, LAMBDA c : c.id # chatId)
     IN /\ chatSessions' = newSessions
        /\ activeChatId' =
             IF activeChatId = chatId
             THEN (IF Len(newSessions) > 0 THEN newSessions[1].id ELSE Null)
             ELSE activeChatId
  /\ UNCHANGED <<ai, currentAssistantId, currentMode, useGoogleSearch, input,
                 attachments, isLoading, loadingMessage, pc, run, calls, outcome,
                 settled, finalResponse, labels, nextId,
                 ignoredSubmits, recorder, codeVars>>

\* the file dialog (its button is disabled while isLoading): one file chosen
handleAttachment ==
  /\ UserEvent
  /\ ~isLoading
  /\ attachments' = attachments \o <<[status |-> "processing", processedParts |-> <<>>]>>
  /\ UNCHANGED <<ai, chatSessions, activeChatId, currentAssistantId, currentMode,
                 useGoogleSearch, input, isLoading, loadingMessage, pc, run, calls,
                 outcome, settled, finalResponse, labels, nextId,
                 ignoredSubmits, recorder, codeVars>>

\* processFile resolves
ProcessFileResolves(i) ==
  /\ attachments[i].status = "processing"
  /\ attachments' = [attachments EXCEPT
                       ![i] = [status |-> "ready", processedParts |-> <<"F">>]]
  /\ UNCHANGED <<ai, chatSessions, activeChatId, currentAssistantId, currentMode,
                 useGoogleSearch, input, isLoading, loadingMessage, pc, run, calls,
                 outcome, settled, finalResponse, labels, nextId, userEvents, ignoredSubmits, recorder, codeVars>>

\* processFile rejects
ProcessFileRejects(i) ==
  /\ attachments[i].status = "processing"
  /\ attachments' = [attachments EXCEPT
                       ![i] = [status |-> "error", processedParts |-> <<>>]]
  /\ UNCHANGED <<ai, chatSessions, activeChatId, currentAssistantId, currentMode,
                 useGoogleSearch, input, isLoading, loadingMessage, pc, run, calls,
                 outcome, settled, finalResponse, labels, nextId, userEvents, ignoredSubmits, recorder, codeVars>>

\* the remove button of an attachment (disabled while isLoading)
removeAttachment(i) ==
  /\ ~isLoading
  /\ attachments' = [j \in 1..(Len(attachments) - 1) |->
                       IF j < i THEN attachments[j] ELSE attachments[j + 1]]
  /\ UNCHANGED <<ai, chatSessions, activeChatId, currentAssistantId, currentMode,
                 useGoogleSearch, input, isLoading, loadingMessage, pc, run, calls,
                 outcome, settled, finalResponse, labels, nextId, userEvents, ignoredSubmits, recorder, codeVars>>

Next ==
  \/ Submit
  \/ SubmitReturnsEarly
  \/ \E t \in {"", "TITLE"} : TitleReturns(t)
  \/ TitleFails
  \/ \E resp \in ResponsesWith("D") : DraftReturns(resp)
  \/ \E k \in 1..Len(calls) :
       \E result \in RefineResponsesWith(TokenOf(calls, k)) \cup {Failed} :
         RefineSettles(k, result)
  \/ \E resp \in ResponsesWith("S") : SynthReturns(resp)
  \/ \E resp \in ResponsesWith("Q") : SingleReturns(resp)
  \/ \E resp \in ResponsesWith("I") : ImageReturns(resp)
  \/ CallFails
  \/ \E k \in 1..Len(calls) :
       \E result \in RefineResponsesWith(TokenOf(calls, k)) \cup {Failed} :
         LateSettle(k, result)
  \/ \E text \in Inputs : SetInput(text)
  \/ \E mode \in AppMode : handleModeChange(mode)
  \/ \E checked \in BOOLEAN : setUseGoogleSearch(checked)
  \/ NewChatClicked
  \/ \E a \in AssistantIds : switchAssistant(a)
  \/ \E i \in 1..Len(chatSessions) : SelectChat(i)
  \/ \E i \in 1..Len(chatSessions) : deleteChat(i)
  \/ handleAttachment
  \/ \E i \in 1..Len(attachments) : ProcessFileResolves(i)
  \/ \E i \in 1..Len(attachments) : ProcessFileRejects(i)
  \/ \E i \in 1..Len(attachments) : removeAttachment(i)

Spec == Init /\ [][Next]_vars

\* ---- the aggregation of the refinements, on results of every shape ----
\* content parts in one refinement result
MaxParts == 1

\* the parts lists of a result: up to MaxParts copies of its text
RECURSIVE PartsUpTo(_, _)
PartsUpTo(token, n) ==
  IF n = 0 THEN {<<>>}
  ELSE PartsUpTo(token, n - 1) \cup { [i \in 1..n |-> token] }

\* the results refinement i may be: no candidate content, or a parts list
RefinementResults(i) ==
  LET token == <<"R1", "R2", "R3", "R4">>[i]
  IN {Response(FALSE, <<>>)} \cup { Response(TRUE, p) : p \in PartsUpTo(token, MaxParts) }

\* a run whose refiners have all resolved: outcome holds refinement1..N
InitRefinedParts ==
  /\ ai = TRUE
  /\ chatSessions = <<>>
  /\ activeChatId = Null
  /\ currentAssistantId = "default-gemini"
  /\ currentMode = "pro"
  /\ useGoogleSearch = FALSE
  /\ input = ""
  /\ attachments = <<>>
  /\ isLoading = TRUE
  /\ loadingMessage = ""
  /\ pc \in {"refine1", "refine2"}
  /\ run \in { [NoRun EXCEPT !.mode = m, !.userParts = <<"X">>, !.text = "X"] :
                 m \in (IF pc = "refine1" THEN {"flash"} ELSE {"pro", "heavy"}) }
  /\ calls = <<>>
  /\ outcome \in { f \in [1..(2 * RefineBatches(run.mode)) ->
                           UNION { RefinementResults(i) : i \in 1..4 }] :
                     \A i \in DOMAIN f : f[i] \in RefinementResults(i) }
  /\ settled = <<>>
  /\ finalResponse = NoResponse
  /\ labels = <<>>
  /\ nextId = 1
  /\ userEvents = 0
  /\ ignoredSubmits = 0
  /\ recorder = "inactive"
  /\ pyodide = FALSE
  /\ isPyodideLoading = FALSE
  /\ executionResults = [k \in CodeBlocks |-> NoResult]
  /\ runCode = [k \in CodeBlocks |-> "idle"]

\* refinedParts is built and handed to the synthesizer
BuildRefinedParts ==
  /\ pc \in {"refine1", "refine2"}
  /\ calls' = <<SynthRequest(run, outcome)>>
  /\ labels' = <<"Synthesizing Final Answer...">>
  /\ loadingMessage' = "Synthesizing Final Answer..."
  /\ pc' = "synth"
  /\ UNCHANGED <<ai, chatSessions, activeChatId, currentAssistantId, currentMode,
                 useGoogleSearch, input, attachments, isLoading, run, outcome,
                 settled, finalResponse, nextId, userEvents, ignoredSubmits, recorder, codeVars>>

NextRefinedParts == BuildRefinedParts

SpecRefinedParts == InitRefinedParts /\ [][NextRefinedParts]_vars

\* ---- a mode outside AppMode ----
\* a value of currentMode that no case of the switch names
UnrecognisedMode == "other"

\* the state after mount when currentMode holds such a value
InitUnrecognisedMode ==
  /\ ai = TRUE
  /\ chatSessions = <<>>
  /\ activeChatId = Null
  /\ currentAssistantId = "default-gemini"
  /\ currentMode = UnrecognisedMode
  /\ useGoogleSearch = FALSE
  /\ input = ""
  /\ attachments = <<>>
  /\ isLoading = FALSE
  /\ loadingMessage = ""
  /\ pc = "idle"
  /\ run = NoRun
  /\ calls = <<>>
  /\ outcome = <<>>
  /\ settled = <<>>
  /\ finalResponse = NoResponse
  /\ labels = <<>>
  /\ nextId = 1
  /\ userEvents = 0
  /\ ignoredSubmits = 0
  /\ recorder = "inactive"
  /\ pyodide = FALSE
  /\ isPyodideLoading = FALSE
  /\ executionResults = [k \in CodeBlocks |-> NoResult]
  /\ runCode = [k \in CodeBlocks |-> "idle"]

SpecUnrecognisedMode == InitUnrecognisedMode /\ [][Next]_vars

\* ---- a completion service that answers ----
\* the service settles a call the run is waiting for
Respond ==
  \/ \E t \in {"", "TITLE"} : TitleReturns(t)
  \/ TitleFails
  \/ \E resp \in ResponsesWith("D") : DraftReturns(resp)
  \/ \E k \in 1..Len(calls) :
       \E result \in RefineResponsesWith(TokenOf(calls, k)) \cup {Failed} :
         RefineSettles(k, result)
  \/ \E resp \in ResponsesWith("S") : SynthReturns(resp)
  \/ \E resp \in ResponsesWith("Q") : SingleReturns(resp)
  \/ \E resp \in ResponsesWith("I") : ImageReturns(resp)
  \/ CallFails

\* every call the run is waiting for eventually returns or fails
SpecResponsive == Init /\ [][Next]_vars /\ WF_vars(Respond)

\* ---- the API key ----
\* the mount effect found a key in localStorage or in the build, or none
InitApiKey ==
  /\ ai \in BOOLEAN
  /\ chatSessions = <<>>
  /\ activeChatId = Null
  /\ currentAssistantId = "default-gemini"
  /\ currentMode = "pro"
  /\ useGoogleSearch = FALSE
  /\ input = ""
  /\ attachments = <<>>
  /\ isLoading = FALSE
  /\ loadingMessage = ""
  /\ pc = "idle"
  /\ run = NoRun
  /\ calls = <<>>
  /\ outcome = <<>>
  /\ settled = <<>>
  /\ finalResponse = NoResponse
  /\ labels = <<>>
  /\ nextId = 1
  /\ userEvents = 0
  /\ ignoredSubmits = 0
  /\ recorder = "inactive"
  /\ pyodide = FALSE
  /\ isPyodideLoading = FALSE
  /\ executionResults = [k \in CodeBlocks |-> NoResult]
  /\ runCode = [k \in CodeBlocks |-> "idle"]

\* the key dialog (the Settings button opens it at any time): a non-empty key
handleApiKeySave ==
  /\ UserEvent
  /\ ai' = TRUE
  /\ UNCHANGED <<chatSessions, activeChatId, currentAssistantId, currentMode,
                 useGoogleSearch, input, attachments, isLoading, loadingMessage, pc,
                 run, calls, outcome, settled, finalResponse, labels, nextId,
                 ignoredSubmits, recorder, codeVars>>

\* fallbackKey: the build carries a key of its own
handleApiKeyClear(fallbackKey) ==
  /\ UserEvent
  /\ ai' = fallbackKey
  /\ UNCHANGED <<chatSessions, activeChatId, currentAssistantId, currentMode,
                 useGoogleSearch, input, attachments, isLoading, loadingMessage, pc,
                 run, calls, outcome, settled, finalResponse, labels, nextId,
                 ignoredSubmits, recorder, codeVars>>

\* handleSubmit passes its first if and returns at `if (!ai)`: the key dialog opens
SubmitWithoutClient ==
  /\ ~ReturnsAtGuard
  /\ ~ai
  /\ UserEvent
  /\ ignoredSubmits' = ignoredSubmits + 1
  /\ UNCHANGED <<ai, chatSessions, activeChatId, currentAssistantId, currentMode,
                 useGoogleSearch, input, attachments, isLoading, loadingMessage, pc,
                 run, calls, outcome, settled, finalResponse, labels, nextId,
                 recorder, codeVars>>

NextApiKey ==
  \/ Next
  \/ SubmitWithoutClient
  \/ handleApiKeySave
  \/ \E fallbackKey \in BOOLEAN : handleApiKeyClear(fallbackKey)

SpecApiKey == InitApiKey /\ [][NextApiKey]_vars

\* ---- recording and dropping files ----
isRecording == recorder \in {"recording", "stopping"}

\* addFilesToAttachments, for one file
addFilesToAttachments ==
  attachments' = attachments \o <<[status |-> "processing", processedParts |-> <<>>]>>

\* the microphone button (disabled while isLoading): stop() when recording,
\* getUserMedia otherwise; stopping is counted with the start of the recording
toggleRecording ==
  /\ ~isLoading
  /\ \/ /\ recorder = "recording"
        /\ recorder' = "stopping"
        /\ UNCHANGED userEvents
     \/ /\ recorder = "inactive"
        /\ UserEvent
        /\ recorder' = "requesting"
  /\ UNCHANGED <<ai, chatSessions, activeChatId, currentAssistantId, currentMode,
                 useGoogleSearch, input, attachments, isLoading, loadingMessage, pc,
                 run, calls, outcome, settled, finalResponse, labels, nextId,
                 ignoredSubmits, codeVars>>

\* getUserMedia resolves: recorder.start(), setIsRecording(true)
GetUserMediaResolves ==
  /\ recorder = "requesting"
  /\ recorder' = "recording"
  /\ UNCHANGED <<ai, chatSessions, activeChatId, currentAssistantId, currentMode,
                 useGoogleSearch, input, attachments, isLoading, loadingMessage, pc,
                 run, calls, outcome, settled, finalResponse, labels, nextId,
                 userEvents, ignoredSubmits, codeVars>>

\* getUserMedia rejects: an alert
GetUserMediaRejects ==
  /\ recorder = "requesting"
  /\ recorder' = "inactive"
  /\ UNCHANGED <<ai, chatSessions, activeChatId, currentAssistantId, currentMode,
                 useGoogleSearch, input, attachments, isLoading, loadingMessage, pc,
                 run, calls, outcome, settled, finalResponse, labels, nextId,
                 userEvents, ignoredSubmits, codeVars>>

\* recorder.onstop: the recording becomes an attachment
RecorderOnStop ==
  /\ recorder = "stopping"
  /\ addFilesToAttachments
  /\ recorder' = "inactive"
  /\ UNCHANGED <<ai, chatSessions, activeChatId, currentAssistantId, currentMode,
                 useGoogleSearch, input, isLoading, loadingMessage, pc,
                 run, calls, outcome, settled, finalResponse, labels, nextId,
                 userEvents, ignoredSubmits, codeVars>>

\* recorder.onerror: an alert, setIsRecording(false)
RecorderOnError ==
  /\ recorder = "recording"
  /\ recorder' = "inactive"
  /\ UNCHANGED <<ai, chatSessions, activeChatId, currentAssistantId, currentMode,
                 useGoogleSearch, input, attachments, isLoading, loadingMessage, pc,
                 run, calls, outcome, settled, finalResponse, labels, nextId,
                 userEvents, ignoredSubmits, codeVars>>

\* a file is dropped on the window
handleDrop ==
  /\ UserEvent
  /\ IF isLoading THEN UNCHANGED attachments ELSE addFilesToAttachments
  /\ UNCHANGED <<ai, chatSessions, activeChatId, currentAssistantId, currentMode,
                 useGoogleSearch, input, isLoading, loadingMessage, pc,
                 run, calls, outcome, settled, finalResponse, labels, nextId,
                 ignoredSubmits, recorder, codeVars>>

NextRecording ==
  \/ Next
  \/ toggleRecording
  \/ GetUserMediaResolves
  \/ GetUserMediaRejects
  \/ RecorderOnStop
  \/ RecorderOnError
  \/ handleDrop

SpecRecording == Init /\ [][NextRecording]_vars

\* ---- handleRunCode ----
\* the state handleRunCode leaves alone
appVars == <<ai, chatSessions, activeChatId, currentAssistantId, currentMode,
             useGoogleSearch, input, attachments, isLoading, loadingMessage, pc,
             run, calls, outcome, settled, finalResponse, labels, nextId,
             userEvents, ignoredSubmits, recorder>>

ExecutionResult(output, running) == [output |-> output, isRunning |-> running]

\* with the environment at hand: packages are installed first when the code
\* imports any, otherwise the code is executed
StartPython(key, results) ==
  IF ImportsPackages(key)
  THEN /\ executionResults' =
            [results EXCEPT ![key] = ExecutionResult("Installing packages...", TRUE)]
       /\ runCode' = [runCode EXCEPT ![key] = "installing"]
  ELSE /\ executionResults' =
            [results EXCEPT ![key] = ExecutionResult("Executing code...", TRUE)]
       /\ runCode' = [runCode EXCEPT ![key] = "executing"]

\* the Run button of a block (disabled while its result is running)
handleRunCode(key) ==
  /\ ~executionResults[key].isRunning
  /\ LET results == [executionResults EXCEPT ![key] = ExecutionResult("", TRUE)]
     IN IF LanguageOf(key) = "python"
        THEN IF ~pyodide
             THEN IF isPyodideLoading
                  THEN /\ executionResults' = results
                       /\ UNCHANGED <<pyodide, isPyodideLoading, runCode>>
                  ELSE /\ isPyodideLoading' = TRUE
                       /\ executionResults' =
                            [results EXCEPT ![key] =
                               ExecutionResult("Initializing Python environment...", TRUE)]
                       /\ runCode' = [runCode EXCEPT ![key] = "loading"]
                       /\ UNCHANGED pyodide
             ELSE /\ StartPython(key, results)
                  /\ UNCHANGED <<pyodide, isPyodideLoading>>
        ELSE /\ executionResults' =
                  [results EXCEPT ![key] = ExecutionResult("iframe", FALSE)]
             /\ UNCHANGED <<pyodide, isPyodideLoading, runCode>>
  /\ UNCHANGED appVars

\* window.loadPyodide resolves
LoadPyodideResolves(key) ==
  /\ runCode[key] = "loading"
  /\ pyodide' = TRUE
  /\ isPyodideLoading' = FALSE
  /\ StartPython(key, executionResults)
  /\ UNCHANGED appVars

\* window.loadPyodide rejects
LoadPyodideRejects(key) ==
  /\ runCode[key] = "loading"
  /\ executionResults' =
       [executionResults EXCEPT ![key] =
          ExecutionResult("Failed to load Python environment: E", FALSE)]
  /\ isPyodideLoading' = FALSE
  /\ runCode' = [runCode EXCEPT ![key] = "idle"]
  /\ UNCHANGED pyodide
  /\ UNCHANGED appVars

\* micropip.install resolves
InstallResolves(key) ==
  /\ runCode[key] = "installing"
  /\ executionResults' =
       [executionResults EXCEPT ![key] = ExecutionResult("Executing code...", TRUE)]
  /\ runCode' = [runCode EXCEPT ![key] = "executing"]
  /\ UNCHANGED <<pyodide, isPyodideLoading>>
  /\ UNCHANGED appVars

\* runPythonAsync resolves with what the code wrote: output.trim() || the notice
RunPythonResolves(key, output) ==
  /\ runCode[key] = "executing"
  /\ executionResults' =
       [executionResults EXCEPT ![key] =
          ExecutionResult(IF output = "" THEN "Execution finished without output."
                          ELSE output, FALSE)]
  /\ runCode' = [runCode EXCEPT ![key] = "idle"]
  /\ UNCHANGED <<pyodide, isPyodideLoading>>
  /\ UNCHANGED appVars

\* the installation or the code throws
RunPythonRejects(key) ==
  /\ runCode[key] \in {"installing", "executing"}
  /\ executionResults' =
       [executionResults EXCEPT ![key] = ExecutionResult("error", FALSE)]
  /\ runCode' = [runCode EXCEPT ![key] = "idle"]
  /\ UNCHANGED <<pyodide, isPyodideLoading>>
  /\ UNCHANGED appVars

NextRunCode ==
  \/ \E key \in CodeBlocks : handleRunCode(key)
  \/ \E key \in CodeBlocks : LoadPyodideResolves(key)
  \/ \E key \in CodeBlocks : LoadPyodideRejects(key)
  \/ \E key \in CodeBlocks : InstallResolves(key)
  \/ \E key \in CodeBlocks : \E output \in {"", "OUT"} : RunPythonResolves(key, output)
  \/ \E key \in CodeBlocks : RunPythonRejects(key)

SpecRunCode == Init /\ [][NextRunCode]_vars

\* ---- properties ----
\* a persona instruction composed with a stage instruction
Composed(persona, stage) ==
  IF persona = "" THEN stage ELSE persona \o "\n\n---\n\n" \o stage

MultiStage == {"flash", "pro", "heavy"}

\* the refiner count N the specification gives each mode
RefinersOf(mode) ==
  CASE mode = "flash" -> 2
    [] mode \in {"pro", "heavy"} -> 4
    [] OTHER -> 0

\* the pipeline requests of the run (every request but the title request)
PipelineCalls == SelectSeq(calls, LAMBDA c : c.site # "title")

PipelineSites == [k \in 1..Len(PipelineCalls) |-> PipelineCalls[k].site]

ExpectedSites(n) ==
  [k \in 1..(n + 2) |-> IF k = 1 THEN "draft" ELSE IF k = n + 2 THEN "synth" ELSE "refine"]

IsPrefix(s, t) == Len(s) <= Len(t) /\ s = SubSeq(t, 1, Len(s))

HasSite(site) == \E k \in 1..Len(calls) : calls[k].site = site

RefineCalls == SiteCalls(calls, "refine")

\* the chat the run was submitted in, while it exists
TargetExists == \E i \in 1..Len(chatSessions) : chatSessions[i].id = run.target

TargetMessages == MessagesOf(chatSessions, run.target)

LastMessage(msgs) == msgs[Len(msgs)]

\* a response with zero content parts
ZeroContentParts(resp) == Len(PartsOrEmpty(resp)) = 0

\* C1: a multi-stage run with N refiners never issues anything but a prefix of
\* Draft, N Refine, Synthesize, and a run that ends without a failure after a
\* draft with content parts has issued exactly these N+2 requests, in this order.
C1_StageSequence ==
  run.mode \in MultiStage =>
    /\ IsPrefix(PipelineSites, ExpectedSites(RefinersOf(run.mode)))
    /\ (pc = "done" /\ ~ZeroContentParts(outcome[DraftIndex]))
         => PipelineSites = ExpectedSites(RefinersOf(run.mode))

C1_Witness ==
  /\ pc = "done"
  /\ run.mode = "heavy"
  /\ Len(PipelineCalls) = 6
  /\ \A k \in 1..Len(calls) : outcome[k].state = "ok"

\* C2: a run in the quick mode issues exactly one pipeline request, made of
\* the history, the user parts and the persona instruction alone, and the
\* final response of the run is the response to that request, whose parts the
\* final message carries.
C2_SingleCall ==
  (run.mode = "quick" /\ pc \notin {"idle", "title"}) =>
    /\ Len(PipelineCalls) = 1
    /\ PipelineCalls[1].site = "single"
    /\ PipelineCalls[1].model = QUICK_MODEL
    /\ PipelineCalls[1].contents = run.history \o <<Turn("user", run.userParts)>>
    /\ PipelineCalls[1].sys = run.persona
    /\ pc = "done" =>
         /\ finalResponse = outcome[Len(calls)]
         /\ finalResponse.state = "ok"
         /\ (TargetExists /\ finalResponse.cand)
              => LastMessage(TargetMessages).parts = finalResponse.parts

C2_Witness ==
  /\ run.mode = "quick"
  /\ pc = "done"
  /\ finalResponse = Response(TRUE, <<"Q">>)
  /\ TargetExists
  /\ LastMessage(TargetMessages).parts = <<"Q">>

\* C3: in a multi-stage mode, a draft response without content parts ends the
\* run in done with the draft request as its only pipeline request and the
\* draft response as its final response.
C3_EmptyDraftFallback ==
  (run.mode \in MultiStage /\ HasSite("draft") /\ outcome[DraftIndex].state = "ok"
     /\ ZeroContentParts(outcome[DraftIndex])) =>
    /\ pc = "done"
    /\ PipelineSites = <<"draft">>
    /\ finalResponse = outcome[DraftIndex]

C3_Witness ==
  /\ run.mode = "flash"
  /\ pc = "done"
  /\ PipelineSites = <<"draft">>
  /\ finalResponse = Response(TRUE, <<>>)

\* C4: when one of the Refine calls of a run has failed, the run is failed,
\* no Synthesize request has been issued, and the target chat ends with the
\* error message.
C4_RefineFailureFailsRun ==
  (\E j \in 1..Len(RefineCalls) : outcome[RefineCalls[j]] = Failed) =>
    /\ pc = "failed"
    /\ ~HasSite("synth")
    /\ finalResponse = NoResponse
    /\ TargetExists => LastMessage(TargetMessages).parts = <<ErrorText>>

C4_Witness ==
  /\ pc = "failed"
  /\ Len(RefineCalls) = 4
  /\ outcome[RefineCalls[3]] = Response(TRUE, <<"R3">>)
  /\ outcome[RefineCalls[4]] = Failed
  /\ TargetExists

\* the position of call k in the order of completion
SettledAt(k) == CHOOSE n \in 1..Len(settled) : settled[n] = k

\* the block that labels the response of the i-th issued Refine request i
RECURSIVE LabelledFrom(_)
LabelledFrom(i) ==
  IF i > Len(RefineCalls) THEN <<>>
  ELSE <<RefineHeader[i]>> \o PartsOrEmpty(outcome[RefineCalls[i]]) \o LabelledFrom(i + 1)

\* C5: whatever the order in which the Refine calls completed, the new turn
\* of the Synthesize request is the user parts followed, for i = 1..N, by the
\* header 'Refined Response i' and the parts of the response to the i-th
\* issued Refine request.
C5_PositionalLabels ==
  \A k \in 1..Len(calls) :
    calls[k].site = "synth" =>
      LastMessage(calls[k].contents).parts = run.userParts \o LabelledFrom(1)

C5_Witness ==
  /\ HasSite("synth")
  /\ Len(RefineCalls) = 2
  /\ SettledAt(RefineCalls[2]) < SettledAt(RefineCalls[1])
  /\ outcome[RefineCalls[1]] = Response(TRUE, <<"R1">>)
  /\ outcome[RefineCalls[2]] = Response(TRUE, <<"R2">>)


\* C6 as stated: once a Refine request has been issued, all N have been.
C6_AllDispatchedTogether ==
  run.mode \in MultiStage => Len(RefineCalls) \in {0, RefinersOf(run.mode)}

\* C6, amended: the Refine requests are dispatched in pairs, both requests of
\* a pair in one step; with N = 2 the pair is all of them, with N = 4 the
\* second pair is dispatched only once both responses of the first pair have
\* been received; the Synthesize request follows all N.
C6_DispatchedInPairs ==
  run.mode \in MultiStage =>
    /\ Len(RefineCalls) \in (IF RefinersOf(run.mode) = 4 THEN {0, 2, 4} ELSE {0, 2})
    /\ Len(RefineCalls) = 4 =>
         /\ outcome[RefineCalls[1]].state = "ok"
         /\ outcome[RefineCalls[2]].state = "ok"
    /\ HasSite("synth") => Len(RefineCalls) = RefinersOf(run.mode)

C6_Witness ==
  /\ run.mode = "pro"
  /\ pc = "refine2"
  /\ Len(RefineCalls) = 4
  /\ outcome[RefineCalls[3]] = Pending
  /\ outcome[RefineCalls[4]] = Pending

\* C7: a Refine request exists only once the Draft response has been
\* received, and the Synthesize request exists only once the responses of all
\* N Refine requests have been received.
C7_StageOrder ==
  /\ Len(RefineCalls) > 0 => outcome[DraftIndex].state = "ok"
  /\ HasSite("synth") =>
       /\ Len(RefineCalls) = RefinersOf(run.mode)
       /\ \A j \in 1..Len(RefineCalls) : outcome[RefineCalls[j]].state = "ok"

C7_Witness ==
  /\ run.mode = "flash"
  /\ pc = "synth"
  /\ outcome[Len(calls)] = Pending
  /\ Len(RefineCalls) = 2

\* the texts the draft and the refiners return
StageTokens == {"D", "R1", "R2", "R3", "R4"}

PartsOfMessages(msgs) == UNION { { msgs[i].parts[j] : j \in 1..Len(msgs[i].parts) } : i \in 1..Len(msgs) }

\* C8: when a pipeline call has failed, the run is failed without a final
\* response, the only request issued after the failed one is the sibling of
\* its own pair (no later stage, no retry), and the target chat ends with the
\* error message and holds no text of the draft or of a refinement.
C8_FailureAborts ==
  \A k \in 1..Len(calls) :
    (calls[k].site # "title" /\ outcome[k] = Failed) =>
      /\ pc = "failed"
      /\ finalResponse = NoResponse
      /\ \A j \in (k + 1)..Len(calls) :
           /\ j = k + 1
           /\ calls[k].site = "refine"
           /\ calls[j].site = "refine"
           /\ \E b \in {1, 2} : RefineBatch(calls, b) = <<k, j>>
      /\ TargetExists =>
           /\ LastMessage(TargetMessages).role = "model"
           /\ LastMessage(TargetMessages).parts = <<ErrorText>>
           /\ PartsOfMessages(TargetMessages) \cap StageTokens = {}
           /\ \A i \in 1..Len(TargetMessages) : TargetMessages[i].id # run.thinkingId

C8_Witness ==
  /\ pc = "failed"
  /\ calls[Len(calls)].site = "synth"
  /\ outcome[Len(calls)] = Failed
  /\ TargetExists

\* C9: the Synthesize request has the history of the target chat as it was
\* before the submission as its prior turns, the user parts followed by the
\* aggregated refinements as its new turn, and the persona instruction
\* composed with the synthesizer instruction as its system instruction.
C9_SynthesizeRequest ==
  \A k \in 1..Len(calls) :
    calls[k].site = "synth" =>
      LET c == calls[k]
          n == Len(c.contents)
      IN /\ SubSeq(c.contents, 1, n - 1) = run.history
         /\ TargetExists =>
              run.history = HistoryOf(SubSeq(TargetMessages, 1, Len(TargetMessages) - 2))
         /\ c.contents[n] = Turn("user", run.userParts \o LabelledFrom(1))
         /\ c.sys = Composed(run.persona, SYNTHESIZER_SYSTEM_INSTRUCTION)

C9_Witness ==
  /\ HasSite("synth")
  /\ Len(run.history) = 2
  /\ TargetExists

PartsOfTurns(turns) == UNION { { turns[i].parts[j] : j \in 1..Len(turns[i].parts) } : i \in 1..Len(turns) }

\* C10: every Refine request has the original history, the user turn and the
\* draft content as prior turns, an empty new turn and the persona instruction
\* composed with the refinement instruction, and holds no text of a refiner.
C10_RefineRequests ==
  \A j \in 1..Len(RefineCalls) :
    LET c == calls[RefineCalls[j]]
    IN /\ c.contents = run.history \o << Turn("user", run.userParts),
                                        Turn("model", outcome[DraftIndex].parts),
                                        Turn("user", <<>>) >>
       /\ c.sys = Composed(run.persona, REFINEMENT_SYSTEM_INSTRUCTION)
       /\ c = calls[RefineCalls[1]]
       /\ PartsOfTurns(c.contents) \cap {"R1", "R2", "R3", "R4"} = {}

C10_Witness ==
  /\ Len(RefineCalls) = 4
  /\ run.persona = "PERSONA"
  /\ outcome[RefineCalls[1]] = Response(TRUE, <<"R1">>)
  /\ outcome[RefineCalls[2]] = Response(TRUE, <<"R2">>)


\* the text of a sequence of text parts, one after the other
RECURSIVE ConcatText(_)
ConcatText(parts) == IF parts = <<>> THEN "" ELSE Head(parts) \o ConcatText(Tail(parts))

\* the header of result i, as the Synthesize request spells it
HeaderText(i) ==
  (IF i = 1 THEN "" ELSE "\n") \o "--- Refined Response "
    \o <<"1", "2", "3", "4">>[i] \o " ---\n"

\* header i followed by the content parts of result i, for i = from..N
RECURSIVE BlocksFrom(_, _)
BlocksFrom(results, from) ==
  IF from > Len(results) THEN <<>>
  ELSE <<HeaderText(from)>>
       \o (IF results[from].cand THEN results[from].parts ELSE <<>>)
       \o BlocksFrom(results, from + 1)

\* the parts the Synthesize request carries after the user parts
AggregatedParts ==
  LET parts == LastMessage(calls[1].contents).parts
  IN SubSeq(parts, Len(run.userParts) + 1, Len(parts))

\* C11: the aggregation of refinement results 1..N is, in index order, the
\* header 'Refined Response i' followed by the content parts of result i, a
\* result with zero content parts contributing its header alone; for the
\* results R1, R2 its text is
\* "--- Refined Response 1 ---\nR1\n--- Refined Response 2 ---\nR2".
C11_Aggregation ==
  pc = "synth" =>
    /\ AggregatedParts = BlocksFrom(outcome, 1)
    /\ \A i \in DOMAIN outcome :
         \E n \in DOMAIN AggregatedParts : AggregatedParts[n] = HeaderText(i)
    /\ outcome = <<Response(TRUE, <<"R1">>), Response(TRUE, <<"R2">>)>>
         => ConcatText(AggregatedParts)
              = "--- Refined Response 1 ---\nR1\n--- Refined Response 2 ---\nR2"

C11_Witness ==
  /\ pc = "synth"
  /\ Len(outcome) = 4
  /\ outcome[1] = Response(TRUE, <<"R1">>)
  /\ outcome[2] = Response(TRUE, <<>>)
  /\ outcome[3] = Response(FALSE, <<>>)
  /\ AggregatedParts[3] = HeaderText(2)
  /\ AggregatedParts[4] = HeaderText(3)

\* the modes of the pipeline (image-gen is a path of its own)
PipelineModes == {"quick", "flash", "pro", "heavy"}

\* the topology the specification gives each pipeline mode
TopologyOf(mode) ==
  CASE mode = "quick" -> [model |-> "gemini-2.5-flash-lite", refineAgents |-> 0,
                          disableReasoning |-> TRUE]
    [] mode = "flash" -> [model |-> "gemini-2.5-flash", refineAgents |-> 2,
                          disableReasoning |-> TRUE]
    [] mode = "pro" -> [model |-> "gemini-2.5-flash", refineAgents |-> 4,
                        disableReasoning |-> FALSE]
    [] mode = "heavy" -> [model |-> "gemini-2.5-pro", refineAgents |-> 4,
                          disableReasoning |-> FALSE]

CountSite(site) == Cardinality({ k \in 1..Len(calls) : calls[k].site = site })

\* C12: in each of the modes quick, flash, pro and heavy every pipeline
\* request of a run goes to the model of the mode, with reasoning disabled
\* exactly in quick and flash and the search tool enabled exactly when the
\* run's search flag is set; quick makes one direct call and no stage call;
\* flash, pro and heavy make one draft call and, once the run is done after a
\* draft with content, exactly 2, 4 and 4 refine calls.
C12_ModeTopology ==
  (run.mode \in PipelineModes /\ pc \notin {"idle", "title"}) =>
    LET t == TopologyOf(run.mode)
    IN /\ \A k \in 1..Len(PipelineCalls) :
            /\ PipelineCalls[k].model = t.model
            /\ PipelineCalls[k].thinkingOff = t.disableReasoning
            /\ PipelineCalls[k].search = run.search
       /\ IF t.refineAgents = 0
          THEN PipelineSites = <<"single">>
          ELSE /\ CountSite("draft") = 1
               /\ CountSite("single") = 0
               /\ CountSite("refine") <= t.refineAgents
               /\ (pc = "done" /\ ~ZeroContentParts(outcome[DraftIndex]))
                    => CountSite("refine") = t.refineAgents

C12_Witness ==
  /\ run.mode = "flash"
  /\ pc = "done"
  /\ CountSite("refine") = 2
  /\ CountSite("synth") = 1
  /\ \A k \in 1..Len(PipelineCalls) :
       PipelineCalls[k].model = "gemini-2.5-flash" /\ PipelineCalls[k].thinkingOff

\* C13 as stated: a run in a mode that is not recognised issues no pipeline
\* request.
C13_UnrecognisedModeRejected ==
  run.mode \notin AppMode => Len(PipelineCalls) = 0

\* C13: a run in a mode that is not recognised is not rejected: it makes one
\* direct call on the pro-tier model, with reasoning not disabled and the
\* persona instruction alone, it fails only if that call fails, and the
\* response to that call is its final response.
C13_UnrecognisedModeSingleCall ==
  (run.mode \notin AppMode /\ pc \notin {"idle", "title"}) =>
    /\ PipelineSites = <<"single">>
    /\ PipelineCalls[1].model = "gemini-2.5-flash"
    /\ ~PipelineCalls[1].thinkingOff
    /\ PipelineCalls[1].search = run.search
    /\ PipelineCalls[1].sys = run.persona
    /\ PipelineCalls[1].contents = run.history \o <<Turn("user", run.userParts)>>
    /\ pc = "failed" => outcome[Len(calls)] = Failed
    /\ pc = "done" => finalResponse = outcome[Len(calls)] /\ finalResponse.state = "ok"

C13_Witness ==
  /\ run.mode = UnrecognisedMode
  /\ pc = "done"
  /\ finalResponse = Response(TRUE, <<"Q">>)
  /\ TargetExists
  /\ LastMessage(TargetMessages).parts = <<"Q">>

\* the status of the run at a position of handleSubmit
StatusAt(p) ==
  CASE p \in {"idle", "title"} -> "Idle"
    [] p = "draft" -> "Drafting"
    [] p \in {"refine1", "refine2"} -> "Refining"
    [] p = "synth" -> "Synthesizing"
    [] p = "done" -> "Done"
    [] p = "failed" -> "Failed"
    [] OTHER -> "Calling"

StatusSteps ==
  { <<"Idle", "Drafting">>, <<"Drafting", "Refining">>, <<"Drafting", "Done">>,
    <<"Refining", "Synthesizing">>, <<"Synthesizing", "Done">>,
    <<"Drafting", "Failed">>, <<"Refining", "Failed">>, <<"Synthesizing", "Failed">> }

\* C14: while a multi-stage run stays the same run, its status keeps or moves
\* along Idle -> Drafting -> (Done | Refining -> Synthesizing -> Done), or to
\* Failed from a stage, reaching Done from Drafting only on a draft with no
\* content parts; and once a run of any mode is Done or Failed it issues no
\* further request, and its final response and the messages of its chat stay
\* as they are.
C14_StatusMachine ==
  [][ run' = run =>
        /\ run.mode \in MultiStage =>
             /\ \/ StatusAt(pc') = StatusAt(pc)
                \/ <<StatusAt(pc), StatusAt(pc')>> \in StatusSteps
             /\ (pc = "draft" /\ pc' = "done") => ZeroContentParts(outcome'[DraftIndex])
        /\ pc \in {"done", "failed"} =>
             /\ pc' = pc
             /\ calls' = calls
             /\ finalResponse' = finalResponse
             /\ TargetExists' => (TargetExists /\ TargetMessages' = TargetMessages)
    ]_vars

\* a refiner settled after its sibling had failed the run
C14_Witness ==
  /\ pc = "failed"
  /\ run.mode \in MultiStage
  /\ Len(RefineCalls) = 2
  /\ outcome[RefineCalls[1]] = Failed
  /\ outcome[RefineCalls[2]] = Response(TRUE, <<"R2">>)
  /\ SettledAt(RefineCalls[1]) < SettledAt(RefineCalls[2])

\* the stages whose call has failed
FailedSites ==
  { calls[k].site : k \in { j \in 1..Len(calls) : calls[j].site # "title"
                                                   /\ outcome[j] = Failed } }

PartsOf(msg) == { msg.parts[j] : j \in 1..Len(msg.parts) }

\* C15 as stated: the error shown for a failed run names the stage that failed.
C15_ErrorCarriesStage ==
  (pc = "failed" /\ TargetExists) =>
    \E s \in FailedSites : s \in PartsOf(LastMessage(TargetMessages))

\* C15: a run fails exactly through the failure of one of its pipeline calls;
\* what is shown is one model message whose only part is the text
\* 'An error occurred: ' followed by the message of the underlying error, the
\* same whichever stage failed and without the name of a stage; a run that is
\* done has no failed pipeline call, and a failed run has no final response.
C15_ErrorReported ==
  /\ pc = "failed" =>
       /\ FailedSites # {}
       /\ finalResponse = NoResponse
       /\ TargetExists =>
            /\ LastMessage(TargetMessages).role = "model"
            /\ LastMessage(TargetMessages).parts = <<"An error occurred: " \o "E">>
            /\ PartsOf(LastMessage(TargetMessages))
                 \cap {"draft", "refine", "synth", "Draft", "Refine", "Synthesize"} = {}
  /\ pc = "done" => FailedSites = {}
  /\ FailedSites # {} => pc = "failed"

C15_Witness ==
  /\ pc = "failed"
  /\ FailedSites = {"refine"}
  /\ Len(RefineCalls) = 4
  /\ TargetExists
  /\ LastMessage(TargetMessages).parts = <<ErrorText>>

\* the positions at which handleSubmit is waiting for a call
Active == {"title", "draft", "refine1", "refine2", "synth", "single", "image"}

InstructionAt(site, persona) ==
  CASE site = "draft" -> Composed(persona, "INITIAL")
    [] site = "refine" -> Composed(persona, "REFINEMENT")
    [] site = "synth" -> Composed(persona, "SYNTHESIZER")
    [] OTHER -> persona

\* C17: a run is configured from the mode, the search flag and the assistant
\* selected when it was submitted; all of its pipeline requests have the same
\* model, the same reasoning and search configuration and the same persona
\* instruction, those of that selection, and their number is the one of that
\* mode, whatever is selected while the run is in progress.
C17_Snapshot ==
  [][ /\ run' # run =>
           /\ run'.mode = currentMode
           /\ run'.search = useGoogleSearch
           /\ run'.persona = SystemInstructionOf(currentAssistantId)
      /\ (run' = run /\ run.mode # "image-gen") =>
           /\ \A k \in 1..Len(calls') :
                calls'[k].site # "title" =>
                  /\ calls'[k].model = ModelOf(run.mode)
                  /\ calls'[k].thinkingOff = (run.mode \in {"flash", "quick"})
                  /\ calls'[k].search = run.search
                  /\ calls'[k].sys = InstructionAt(calls'[k].site, run.persona)
           /\ Cardinality({ k \in 1..Len(calls') : calls'[k].site = "refine" })
                <= RefinersOf(run.mode)
           /\ (pc' = "done" /\ run.mode \in MultiStage
                 /\ ~ZeroContentParts(outcome'[SiteCalls(calls', "draft")[1]]))
                => Cardinality({ k \in 1..Len(calls') : calls'[k].site = "refine" })
                     = RefinersOf(run.mode)
    ]_vars

\* another mode was selected while the run was in progress
C17_Witness ==
  /\ pc = "synth"
  /\ isLoading
  /\ run.mode = "pro"
  /\ currentMode = "quick"
  /\ \A k \in 1..Len(PipelineCalls) : PipelineCalls[k].model = "gemini-2.5-flash"
  /\ Len(PipelineCalls) = 6

\* the outcomes of the pipeline requests, in issue order
PipelineOutcomes ==
  LET skip == Len(calls) - Len(PipelineCalls)
  IN [k \in 1..Len(PipelineCalls) |-> outcome[k + skip]]

AllOk(oc, from, to) == to <= Len(oc) /\ \A k \in from..to : oc[k].state = "ok"

\* the requests a run of a pipeline mode has issued, as a function of the
\* inputs of the run and of the responses received so far
ExpectedRequests(mode, history, userParts, persona, search, oc) ==
  LET t == TopologyOf(mode)
      Sys(stage) == IF stage = "" THEN persona ELSE Composed(persona, stage)
      Req(site, stage, prior, parts) ==
        Request(site, t.model, prior \o <<Turn("user", parts)>>, Sys(stage),
                t.disableReasoning, search)
      draft == Req("draft", "INITIAL", history, userParts)
      refine == Req("refine", "REFINEMENT",
                    history \o <<Turn("user", userParts), Turn("model", oc[1].parts)>>,
                    <<>>)
      synth(n) == Req("synth", "SYNTHESIZER", history,
                      userParts \o BlocksFrom(SubSeq(oc, 2, n + 1), 1))
  IN IF t.refineAgents = 0 THEN <<Req("single", "", history, userParts)>>
     ELSE IF ~(AllOk(oc, 1, 1) /\ oc[1].cand /\ Len(oc[1].parts) > 0) THEN <<draft>>
     ELSE IF ~AllOk(oc, 2, 3) THEN <<draft, refine, refine>>
     ELSE IF t.refineAgents = 2 THEN <<draft, refine, refine, synth(2)>>
     ELSE IF ~AllOk(oc, 4, 5) THEN <<draft, refine, refine, refine, refine>>
     ELSE <<draft, refine, refine, refine, refine, synth(4)>>

\* C18: the sequence of pipeline requests of a run is a function of its mode,
\* history, user parts, persona and search flag and of the responses to its
\* earlier requests by position: two runs that agree on these issue the same
\* requests in the same order, whatever the order in which calls complete and
\* whatever else the application holds.
C18_Deterministic ==
  (run.mode \in PipelineModes /\ pc \notin {"idle", "title"}) =>
    PipelineCalls = ExpectedRequests(run.mode, run.history, run.userParts,
                                     run.persona, run.search, PipelineOutcomes)

C18_Witness ==
  /\ pc = "done"
  /\ run.mode = "pro"
  /\ Len(PipelineCalls) = 6
  /\ SettledAt(RefineCalls[2]) < SettledAt(RefineCalls[1])
  /\ SettledAt(RefineCalls[3]) < SettledAt(RefineCalls[4])

\* C19: the system instruction of a Draft, Refine or Synthesize request is
\* the stage's instruction alone when the run has no persona, and the persona
\* instruction, the separator and the stage's instruction when it has one; the
\* system instruction of the single-call request is the persona instruction
\* alone, and none when the run has no persona.
C19_SystemInstruction ==
  \A k \in 1..Len(calls) :
    LET c == calls[k]
        stage == CASE c.site = "draft" -> "INITIAL"
                   [] c.site = "refine" -> "REFINEMENT"
                   [] c.site = "synth" -> "SYNTHESIZER"
                   [] OTHER -> ""
    IN /\ (c.site \in {"draft", "refine", "synth"} /\ run.persona = "")
            => c.sys = stage
       /\ (c.site \in {"draft", "refine", "synth"} /\ run.persona = "PERSONA")
            => c.sys = "PERSONA" \o "\n\n---\n\n" \o stage
       /\ c.site = "single" => c.sys = run.persona

C19_Witness ==
  /\ run.persona = "PERSONA"
  /\ HasSite("synth")
  /\ calls[DraftIndex].sys = "PERSONA\n\n---\n\nINITIAL"
  /\ calls[Len(calls)].sys = "PERSONA\n\n---\n\nSYNTHESIZER"

\* the labels of a run of a mode, in stage order
StageLabels(mode) ==
  <<"Thinking...">>
    \o (IF mode \in MultiStage
        THEN <<"Agent 1: Initial Draft...", "Agents 2 & 3: Refining...">>
               \o (IF mode \in {"pro", "heavy"} THEN <<"Agents 4 & 5: Refining...">>
                   ELSE <<>>)
               \o <<"Synthesizing Final Answer...">>
        ELSE <<>>)

\* the number of labels that goes with the pipeline requests issued so far
LabelsDue ==
  1 + (IF HasSite("draft") THEN 1 ELSE 0)
    + (IF Len(RefineCalls) >= 1 THEN 1 ELSE 0)
    + (IF Len(RefineCalls) >= 3 THEN 1 ELSE 0)
    + (IF HasSite("synth") THEN 1 ELSE 0)

\* C20: the labels a run has set are the labels of its mode in stage order,
\* up to and including the label of the latest stage with a request issued,
\* and none beyond; while the run is in progress the label shown is the last
\* one set, and once the run has ended, by success, by fallback or by failure,
\* no label is shown; no request carries a label.
C20_ProgressLabels ==
  /\ pc # "idle" =>
       /\ IsPrefix(labels, StageLabels(run.mode))
       /\ Len(labels) = LabelsDue
  /\ pc \in Active => loadingMessage = labels[Len(labels)]
  /\ pc \in {"idle", "done", "failed"} => loadingMessage = ""
  /\ \A k \in 1..Len(calls) :
       /\ PartsOfTurns(calls[k].contents) \cap PartsOf([parts |-> StageLabels("pro")]) = {}
       /\ calls[k].sys \notin PartsOf([parts |-> StageLabels("pro")])

C20_Witness ==
  /\ pc = "done"
  /\ run.mode = "heavy"
  /\ Len(labels) = 5
  /\ labels[4] = "Agents 4 & 5: Refining..."
  /\ loadingMessage = ""
  /\ HasSite("synth")

\* C21: a run in the image-gen mode issues one pipeline request, the image
\* request, on the image model, and no Draft, Refine or Synthesize request;
\* when it is done the final message carries the content parts of the
\* response, or the fixed text "I couldn't generate a response. Please try
\* again." when the response has none.
C21_ImageGen ==
  (run.mode = "image-gen" /\ pc \notin {"idle", "title"}) =>
    /\ PipelineSites = <<"image">>
    /\ PipelineCalls[1].model = "gemini-2.5-flash-image-preview"
    /\ PipelineCalls[1].contents = run.history \o <<Turn("user", run.userParts)>>
    /\ (pc = "done" /\ TargetExists) =>
         LET resp == outcome[Len(calls)]
         IN /\ resp.state = "ok"
            /\ LastMessage(TargetMessages).role = "model"
            /\ LastMessage(TargetMessages).parts =
                 (IF ZeroContentParts(resp)
                  THEN <<"I couldn't generate a response. Please try again.">>
                  ELSE resp.parts)

C21_Witness ==
  /\ run.mode = "image-gen"
  /\ pc = "done"
  /\ outcome[Len(calls)] = Response(TRUE, <<>>)
  /\ TargetExists
  /\ LastMessage(TargetMessages).parts
       = <<"I couldn't generate a response. Please try again.">>

\* C22: when every awaited call eventually returns or fails, a run in
\* progress eventually is done or failed, with the loading flag and the label
\* cleared and no attachment left to hold the next submission back.
C22_RunEnds ==
  (pc \in Active) ~>
    (pc \in {"done", "failed"} /\ ~isLoading /\ loadingMessage = "" /\ attachments = <<>>)

\* a run that ended although its title call and its synthesizer call failed
C22_Witness ==
  /\ pc = "failed"
  /\ ~isLoading
  /\ calls[1].site = "title"
  /\ outcome[1] = Failed
  /\ calls[Len(calls)].site = "synth"
  /\ outcome[Len(calls)] = Failed

\* the parts of the model message that closes a run that is done
ResultParts ==
  LET resp == outcome[Len(calls)]
  IN IF run.mode = "image-gen"
     THEN (IF ZeroContentParts(resp)
           THEN <<"I couldn't generate a response. Please try again.">>
           ELSE resp.parts)
     ELSE (IF resp.cand THEN resp.parts
           ELSE <<"Sorry, I couldn't generate a response.">>)

ChatIds(sessions) == { sessions[i].id : i \in 1..Len(sessions) }

RunEnds == pc \in Active /\ pc' \in {"done", "failed"}

TurnsBeforeRun ==
  HistoryOf(SubSeq(TargetMessages, 1, Len(run.history)))

\* C25: the contents of every draft, single, image and synthesis request are
\* the turns the target chat held before the submission followed by one user
\* turn that starts with the parts of the new user message, and a refinement
\* request adds the draft and an empty user turn to that; the user message is
\* thus at one position only, and no turn is the thinking placeholder.
C25_HistoryBeforeSubmission ==
  (pc \in Active \cup {"done", "failed"}) =>
    LET n == Len(run.history)
    IN /\ TargetExists => TurnsBeforeRun = run.history
       /\ TargetExists => Len(TargetMessages) = n + 2
       /\ \A k \in 1..Len(calls) :
            LET c == calls[k].contents
            IN /\ calls[k].site \in {"draft", "single", "image", "synth"} =>
                    /\ Len(c) = n + 1
                    /\ TargetExists => HistoryOf(SubSeq(TargetMessages, 1, n)) = SubSeq(c, 1, n)
                    /\ SubSeq(c, 1, n) = run.history
                    /\ c[n + 1].role = "user"
                    /\ Len(c[n + 1].parts) >= Len(run.userParts)
                    /\ SubSeq(c[n + 1].parts, 1, Len(run.userParts)) = run.userParts
                    /\ calls[k].site # "synth" => c[n + 1].parts = run.userParts
               /\ calls[k].site = "refine" =>
                    /\ Len(c) = n + 3
                    /\ SubSeq(c, 1, n + 1) = run.history \o <<Turn("user", run.userParts)>>
                    /\ c[n + 2].role = "model"
                    /\ c[n + 3] = Turn("user", <<>>)
               /\ \A i \in 1..Len(c) : c[i].parts # <<"...">>

\* the second submission of a chat reached its synthesis: the request carries
\* the two earlier turns and then the new user message
C25_Witness ==
  /\ pc = "done"
  /\ TargetExists
  /\ Len(run.history) = 2
  /\ \E k \in 1..Len(calls) :
       /\ calls[k].site = "synth"
       /\ Len(calls[k].contents) = 3
       /\ calls[k].contents[1].role = "user"
       /\ calls[k].contents[2].role = "model"

\* C26: every message stored in a chat has at least one content part.
C26_MessagesHaveParts ==
  \A i \in 1..Len(chatSessions) :
    \A j \in 1..Len(chatSessions[i].messages) :
      Len(chatSessions[i].messages[j].parts) >= 1

\* a condition under which handleSubmit returns before it sets anything
Rejects ==
  \/ HasStatus(attachments, "processing")
  \/ HasStatus(attachments, "error")
  \/ (input = "" /\ ~HasStatus(attachments, "ready"))
  \/ ~ai

\* C27: while an attachment is processing or in error, or the input is blank
\* with no ready attachment, or no client is initialised, no submission is
\* accepted: a call of handleSubmit leaves chats, input, attachments and
\* requests as they are and no run starts; and at an accepted submission every
\* attachment is ready and the user message is the text followed by the parts
\* of the attachments.
C27_Rejected ==
  [][/\ Rejects =>
          /\ run' = run
          /\ pc \notin Active => (calls' = calls /\ pc' = pc)
          /\ ignoredSubmits' # ignoredSubmits =>
               UNCHANGED <<chatSessions, input, attachments, calls, pc, isLoading>>
     /\ run' # run =>
          /\ \A i \in 1..Len(attachments) : attachments[i].status = "ready"
          /\ Len(run'.userParts) = (IF input # "" THEN 1 ELSE 0) + Len(attachments)
          /\ run'.userParts =
               (IF input # "" THEN <<input>> ELSE <<>>) \o ReadyParts(attachments)]_vars

\* a submission with text was made without a client and nothing was sent
C27_Witness ==
  /\ ~ai
  /\ ignoredSubmits = 1
  /\ input = "X"
  /\ attachments = <<>>
  /\ pc = "idle"
  /\ calls = <<>>
  /\ chatSessions = <<>>

\* C28: a run issues a title request exactly when its chat held no message
\* before the submission and the text is not blank; the request is the first
\* of the run and has settled before any pipeline request exists; when it
\* fails the pipeline still starts, and a failed run has a failed pipeline
\* call.
C28_TitleCall ==
  (pc \in Active \cup {"done", "failed"}) =>
    /\ HasSite("title") <=> (Len(run.history) = 0 /\ run.text # "")
    /\ \A k \in 1..Len(calls) : calls[k].site = "title" => k = 1
    /\ HasSite("title") =>
         /\ calls[1] = TitleRequest(run.text)
         /\ pc = "title" <=> outcome[1] = Pending
         /\ pc = "title" <=> Len(calls) = 1
         /\ outcome[1] = Failed => Len(calls) >= 2
    /\ pc = "failed" =>
         \E k \in 1..Len(calls) : calls[k].site # "title" /\ outcome[k] = Failed

\* the title call failed and the run went on to its end
C28_Witness ==
  /\ pc = "done"
  /\ HasSite("title")
  /\ outcome[1] = Failed
  /\ HasSite("synth")
  /\ TargetExists
  /\ LastMessage(TargetMessages).parts = <<"S">>

\* C29: from the acceptance of a submission to the end of its run no
\* attachment is added, and the attachments the end of the run discards are
\* the ready ones whose parts the user message carries.
C29_NoAttachmentDuringRun ==
  [][(pc \in Active) =>
       /\ Len(attachments') <= Len(attachments)
       /\ \A i \in 1..Len(attachments) : attachments[i].status = "ready"
       /\ run.userParts =
            (IF run.text # "" THEN <<run.text>> ELSE <<>>) \o ReadyParts(attachments)]_vars

\* C30: a block whose handleRunCode call is over is not shown as running.
C30_LeavesRunning ==
  \A key \in CodeBlocks :
    runCode[key] = "idle" => ~executionResults[key].isRunning
====
